---- MODULE Spec2Model ----
(***************************************************************************)
(* AuthCore: the credential and session lifecycle of services/authService  *)
(* over the User model (models/User.ts).                                   *)
(*                                                                         *)
(* Every request is a process that runs one service function.  A function  *)
(* is cut at its awaits on the store, on bcrypt and on the mailer: what    *)
(* runs between two awaits is one action.  A process keeps the document it *)
(* loaded (proc[p].doc) and writes it back with save().                    *)
(*                                                                         *)
(* save() is Mongoose's Document.save of the schema in models/User.ts: it  *)
(* writes the modified paths only.  A scalar path is written with $set.    *)
(* The array path refreshTokens is written                                 *)
(*   - with $push when the document only pushed onto the loaded array,     *)
(*   - with $set of the whole array when the array was assigned or sorted; *)
(*     that update carries the version key __v the document was loaded     *)
(*     with, and fails (VersionError) when the stored __v differs.         *)
(* Every array write increments __v.  The schema does not switch the       *)
(* version key off (User.ts:131-133).                                      *)
(*                                                                         *)
(* The clock is in abstract ticks; only the order of now and an expiry     *)
(* matters.  Raw refresh tokens and verification tickets are numbered in   *)
(* the order of their generation (crypto.randomBytes and uuid never repeat *)
(* a value); 0 is a value that was never generated.  The store itself does *)
(* not fail.                                                               *)
(***************************************************************************)
EXTENDS Integers, Sequences, FiniteSets, TLC

VARIABLES users, proc, last, now, nextId, nextTok, nextTicket, started, lim,
          rotated, consumed, regOk

vars == <<users, proc, last, now, nextId, nextTok, nextTicket, started, lim,
          rotated, consumed, regOk>>

(***************************************************************************)
(* Bounds of the model.                                                    *)
(***************************************************************************)
\* The concurrent requests.
Procs == {1, 2}

\* All operations, concurrently: requests ever started, latest clock value.
MaxOps == 4
MaxTime == 1
\* The session operations, concurrently: refresh tokens ever minted, latest
\* clock value.
MaxTokSess == 3
MaxTimeSess == 1
\* Logins and refreshes one after the other: refresh tokens ever minted,
\* latest clock value.
MaxTokSeq == 7
MaxTimeSeq == 2

\* Two accounts: refresh tokens issued.
MaxTokTwo == 3

\* Registrations under two usernames and logins by e-mail: requests started.
MaxOpsCase == 3

\* Concurrent logins on a list of MaxSessions sessions: refresh tokens minted.
MaxTokFive == 2

\* Resends and verifications on a registered account: tickets generated
\* after the first, latest clock value.
MaxTicketsResent == 2
MaxTimeTicket == 2

\* Registrations with two addresses and two usernames: requests started.
MaxOpsReg == 3

\* The login and refresh routes: refresh tokens minted.
MaxTokRoute == 3

\* An account with a full session list: refresh tokens minted after the
\* first six, latest clock value.
MaxTokCap == 1
MaxTimeCap == 1

\* Refreshes of live, revoked and expired sessions: refresh tokens minted
\* after the first three, latest clock value.
MaxTokRefresh == 1
MaxTimeRefresh == 2

\* Access tokens: refresh tokens minted, latest clock value.
MaxTokJwt == 1
MaxTimeJwt == 1

\* The limits of a run, fixed by its initial state: requests started (0: not
\* limited), accounts created, tickets generated, refresh tokens minted,
\* latest clock value, concurrent requests.
Limits(ops, ids, tickets, toks, clock, conc) ==
  [ ops |-> ops, ids |-> ids, tickets |-> tickets, toks |-> toks,
    clock |-> clock, conc |-> conc ]

(***************************************************************************)
(* Program constants.                                                      *)
(***************************************************************************)
\* login: user.limitActiveTokens(5)
MaxSessions == 5
\* register: const maxRetries = 3
MaxRetries == 3

(***************************************************************************)
(* Inputs.  "A@x" and "a@x" differ only in letter case.                    *)
(***************************************************************************)
Emails == {"a@x", "A@x"}
Usernames == {"alice"}
Passwords == {"pw1", "pw2"}
Devices == {"ua1"}
IpAddresses == {"ip1"}

ToLowerKeepsCase(s) == s
\* String.prototype.toLowerCase on the e-mail inputs of the model.
ToLower(s) == IF s = "A@x" THEN "a@x" ELSE s

(***************************************************************************)
(* tokenService and bcrypt.                                                *)
(***************************************************************************)
\* The lifetime of a refresh token (7 days by default) and of a
\* verification ticket (24 hours), each one tick of the clock.
RefreshTTL == 1
VerifyTTL == 1

hashRefreshTokenRaw(t) == <<"raw", t>>
\* crypto.createHash('sha256').update(token).digest('hex'): injective on
\* the tokens of the model, never equal to a raw token.
hashRefreshToken(t) == <<"sha256", t>>
\* new Date(Date.now() + lifetime), at time t
getRefreshTokenExpiry(t) == t + RefreshTTL
getVerificationTokenExpiry(t) == t + VerifyTTL

\* config/jwt: the algorithm, the key pair, the issuer and the audience.
jwtConfig ==
  [ algorithm |-> "RS256", privateKey |-> "private", publicKey |-> "public",
    issuer |-> "authCore", audience |-> "authCore-api" ]

\* accessTokenExpire: process.env.ACCESS_TOKEN_EXPIRE || '15m'.  The
\* environment of a run is fixed by its initial state, with its limits.
accessTokenExpire ==
  IF "ACCESS_TOKEN_EXPIRE" \in DOMAIN lim THEN lim.ACCESS_TOKEN_EXPIRE ELSE "15m"

\* The seconds of a time span, as jwt.sign computes them for expiresIn.
Seconds(span) ==
  CASE span = "15m" -> 900
    [] span = "30m" -> 1800
    [] span = "1h" -> 3600

\* The lifetime of an access token in ticks of the clock; a tick is the 15
\* minutes of the default lifetime.
AccessTTL == Seconds(accessTokenExpire) \div 900

\* A JWT: the algorithm of its header, the key that made its signature, and
\* the claims of its payload (sub stands for userId, email and username).
\* NoAccess is no token.
NoAccess ==
  [ alg |-> "none", key |-> "none", sub |-> 0, exp |-> 0, iss |-> "", aud |-> "" ]

\* jwt.sign(payload, config.jwt.privateKey, options) at the current time.
generateAccessToken(user) ==
  [ alg |-> jwtConfig.algorithm,
    key |-> jwtConfig.privateKey,
    sub |-> user.id,
    exp |-> now + AccessTTL,
    iss |-> jwtConfig.issuer,
    aud |-> jwtConfig.audience ]

\* The failure value of verifyAccessToken, and the decoded payload.
Null == [ userId |-> 0, exp |-> 0, iss |-> "", aud |-> "" ]
Payload(token) ==
  [ userId |-> token.sub, exp |-> token.exp, iss |-> token.iss, aud |-> token.aud ]

\* The signature of the token verifies under key with the algorithm of the
\* header: an RSA signature under the public key of the private key that
\* made it, an HMAC under the secret that made it.
SignatureValid(token, key) ==
  IF token.alg \in {"RS256", "RS384"}
  THEN token.key = "private" /\ key = "public"
  ELSE token.key = key

verifyAccessTokenOnline(token) ==
  IF token.sub \notin DOMAIN users THEN Null
  ELSE IF users[token.sub].refreshTokens = <<>> THEN Null
  ELSE IF token.alg \notin {jwtConfig.algorithm} THEN Null
  ELSE IF ~SignatureValid(token, jwtConfig.publicKey) THEN Null
  ELSE IF now >= token.exp THEN Null
  ELSE IF token.aud # jwtConfig.audience THEN Null
  ELSE IF token.iss # jwtConfig.issuer THEN Null
  ELSE Payload(token)

verifyAccessTokenAnyIssuer(token) ==
  IF token.alg \notin {jwtConfig.algorithm} THEN Null
  ELSE IF ~SignatureValid(token, jwtConfig.publicKey) THEN Null
  ELSE IF now >= token.exp THEN Null
  ELSE IF token.aud # jwtConfig.audience THEN Null
  ELSE Payload(token)

\* jwt.verify(token, config.jwt.publicKey, { algorithms, issuer, audience })
\* and the catch that returns null.
verifyAccessToken(token) ==
  IF token.alg \notin {jwtConfig.algorithm} THEN Null
  ELSE IF ~SignatureValid(token, jwtConfig.publicKey) THEN Null
  ELSE IF now >= token.exp THEN Null
  ELSE IF token.aud # jwtConfig.audience THEN Null
  ELSE IF token.iss # jwtConfig.issuer THEN Null
  ELSE Payload(token)

\* bcrypt.hash(password, saltRounds)
bcryptHash(pw) == <<"bcrypt", pw>>
comparePasswordAlways(pw, passwordHash) == TRUE
\* bcrypt.compare(candidatePassword, this.passwordHash)
comparePassword(pw, passwordHash) == passwordHash = bcryptHash(pw)

(***************************************************************************)
(* Documents.                                                              *)
(***************************************************************************)
\* A stored account: the fields of userSchema plus Mongoose's __v.
NewUser(email, username, pw) ==
  [ email |-> ToLower(email),
    username |-> username,
    passwordHash |-> bcryptHash(pw),
    isVerified |-> FALSE,
    verificationToken |-> 0,
    verificationTokenExpires |-> 0,
    refreshTokens |-> <<>>,
    v |-> 0 ]

\* No document loaded.
NoDoc == [ id |-> 0 ]

\* The document a query returns: the stored fields, the _id, and the
\* change tracking of the array path (arrMode: none, push or set).
Load(id) ==
  [ id |-> id,
    email |-> users[id].email,
    username |-> users[id].username,
    passwordHash |-> users[id].passwordHash,
    isVerified |-> users[id].isVerified,
    verificationToken |-> users[id].verificationToken,
    verificationTokenExpires |-> users[id].verificationTokenExpires,
    refreshTokens |-> users[id].refreshTokens,
    v |-> users[id].v,
    arrMode |-> "none",
    pushed |-> <<>> ]

Ids == DOMAIN users

(***************************************************************************)
(* Change tracking of doc.refreshTokens (Mongoose).                        *)
(***************************************************************************)
\* this.refreshTokens = arr: the path is marked modified, as a whole, when
\* it was modified before or when arr differs from the current value.
AssignTokens(doc, arr) ==
  [doc EXCEPT !.refreshTokens = arr,
              !.arrMode = IF doc.arrMode # "none" \/ arr # doc.refreshTokens
                          THEN "set" ELSE "none",
              !.pushed = <<>>]

\* this.refreshTokens.push(rt)
PushToken(doc, rt) ==
  [doc EXCEPT !.refreshTokens = Append(doc.refreshTokens, rt),
              !.arrMode = IF doc.arrMode = "set" THEN "set" ELSE "push",
              !.pushed = IF doc.arrMode = "set" THEN <<>>
                         ELSE Append(doc.pushed, rt)]

(***************************************************************************)
(* Instance methods of the User model.                                     *)
(***************************************************************************)
addRefreshToken(doc, tokenHash, expiresAt, deviceInfo, ipAddress) ==
  PushToken(doc, [ tokenHash |-> tokenHash,
                   expiresAt |-> expiresAt,
                   createdAt |-> now,
                   deviceInfo |-> deviceInfo,
                   ipAddress |-> ipAddress,
                   isRevoked |-> FALSE ])

removeRefreshTokenKeepsAll(doc, tokenHash) == AssignTokens(doc, doc.refreshTokens)
removeRefreshTokenDropsAll(doc, tokenHash) == AssignTokens(doc, <<>>)

removeRefreshToken(doc, tokenHash) ==
  LET Other(rt) == rt.tokenHash # tokenHash
  IN AssignTokens(doc, SelectSeq(doc.refreshTokens, Other))

\* find: the first entry with the hash, or NoToken.
NoToken == [ tokenHash |-> <<"none", 0>> ]
findRefreshToken(doc, tokenHash) ==
  LET hits == {i \in 1..Len(doc.refreshTokens) :
                 doc.refreshTokens[i].tokenHash = tokenHash}
  IN IF hits = {} THEN NoToken
     ELSE doc.refreshTokens[CHOOSE i \in hits : \A j \in hits : i <= j]

cleanExpiredTokens(doc) ==
  LET Live(rt) == rt.expiresAt > now /\ ~rt.isRevoked
  IN AssignTokens(doc, SelectSeq(doc.refreshTokens, Live))

RECURSIVE InsertDesc(_, _)
\* Insertion of rt into a list sorted by createdAt, newest first, behind the
\* entries of the same createdAt (Array.prototype.sort is stable).
InsertDesc(sorted, rt) ==
  IF sorted = <<>> THEN <<rt>>
  ELSE IF Head(sorted).createdAt >= rt.createdAt
       THEN <<Head(sorted)>> \o InsertDesc(Tail(sorted), rt)
       ELSE <<rt>> \o sorted

RECURSIVE SortDesc(_)
\* sort((a, b) => b.createdAt - a.createdAt)
SortDesc(s) ==
  IF s = <<>> THEN <<>>
  ELSE InsertDesc(SortDesc(SubSeq(s, 1, Len(s) - 1)), s[Len(s)])

limitActiveTokens(doc, maxTokens) ==
  IF Len(doc.refreshTokens) > maxTokens
  THEN AssignTokens([doc EXCEPT !.arrMode = "set"],
                    SubSeq(SortDesc(doc.refreshTokens), 1, maxTokens))
  ELSE doc

(***************************************************************************)
(* save()                                                                  *)
(***************************************************************************)
VersionIgnored(storedV, loadedV) == TRUE

\* The condition a whole-array $set carries: { _id, __v: <loaded __v> }.
VersionMatches(storedV, loadedV) == storedV = loadedV

\* The update of save() matches a stored document.
CanSave(doc) ==
  /\ doc.id \in Ids
  /\ doc.arrMode = "set" => VersionMatches(users[doc.id].v, doc.v)

\* The error save() throws when its update matches nothing.
SaveError(doc) ==
  IF doc.id \in Ids THEN "VersionError" ELSE "DocumentNotFoundError"

\* The stored account after save() wrote the array path of doc.
SavedTokens(doc) ==
  LET u == users[doc.id]
  IN CASE doc.arrMode = "none" -> u
       [] doc.arrMode = "push" ->
            [u EXCEPT !.refreshTokens = u.refreshTokens \o doc.pushed,
                      !.v = u.v + 1]
       [] doc.arrMode = "set" ->
            [u EXCEPT !.refreshTokens = doc.refreshTokens,
                      !.v = u.v + 1]

(***************************************************************************)
(* Processes.                                                              *)
(***************************************************************************)
DeviceInfos == [userAgent : Devices, ipAddress : IpAddresses]
NoDevice == [userAgent |-> "", ipAddress |-> ""]

\* A process between two requests, and the fields of a running one.  pass:
\* the number of times a register has begun its pre-checks.  waited: the
\* seconds a register has spent in the waits of its delivery loop.
Idle ==
  [ op |-> "none", pc |-> "done", acct |-> "", uname |-> "", pw |-> "",
    tok |-> 0, uid |-> 0, dev |-> NoDevice, doc |-> NoDoc, att |-> 0,
    cmp |-> FALSE, pwok |-> FALSE, late |-> FALSE, pass |-> 0,
    waited |-> 0 ]

\* p is free, and the limits of the run admit one more request.
Ready(p) ==
  /\ proc[p].pc = "done"
  /\ lim.ops = 0 \/ started < lim.ops
  /\ Cardinality({q \in Procs : proc[q].pc # "done"}) < lim.conc

\* A request starts.
Started == started' = IF lim.ops = 0 THEN started ELSE started + 1

\* last is the response of the step just taken, NoOutcome when that step
\* ended no request.  res is "OK" or the error, out the refresh token or the
\* account id returned.  What the request did: cmp, the password comparison
\* ran; tries, the e-mail deliveries attempted; sent, the last delivery
\* succeeded.  late: the token or ticket presented had been used up before
\* the request began.  dup: it had been used up when the request succeeded.
\* acc: the access token returned, or the one given to verifyAccessToken.
\* auth and http: the scheme of the Authorization header of a request to the
\* middleware, and the status the middleware answered with (0: it did not
\* answer).  msg: which of the messages of a failed refresh or of a refused
\* register was thrown.  field: the field detail of the error thrown.  For a
\* register, dup: the refusal was error 11000 of a unique index; waited: the
\* seconds the call spent in the waits of its delivery loop.  expiresIn: the
\* expiresIn of the result of a login or refresh.
NoOutcome ==
  [ op |-> "none", res |-> "none", out |-> 0, cmp |-> FALSE, tries |-> 0,
    sent |-> FALSE, late |-> FALSE, dup |-> FALSE, acc |-> NoAccess,
    auth |-> "", http |-> 0, msg |-> "", field |-> "", waited |-> 0,
    expiresIn |-> 0 ]

\* The response of the request of p.
Outcome(p, res, out) ==
  [NoOutcome EXCEPT !.op = proc[p].op, !.res = res, !.out = out,
                    !.cmp = proc[p].cmp, !.tries = proc[p].att,
                    !.late = proc[p].late, !.waited = proc[p].waited]

\* The request of p ends with result res and returned value out.
Return(p, res, out) ==
  /\ proc' = [proc EXCEPT ![p] = Idle]
  /\ last' = Outcome(p, res, out)

\* The request of p ends with the response outcome.
ReturnWith(p, outcome) ==
  /\ proc' = [proc EXCEPT ![p] = Idle]
  /\ last' = outcome

\* A request of p ends at its first await.
ReturnAtOnce(p, op, res, late) ==
  /\ proc' = [proc EXCEPT ![p] = Idle]
  /\ last' = [NoOutcome EXCEPT !.op = op, !.res = res, !.late = late]

\* The request of p goes on as process state next.
Continue(p, next) ==
  /\ proc' = [proc EXCEPT ![p] = next]
  /\ last' = NoOutcome

\* Raw refresh tokens handed out so far; 0 is a value that was never issued.
IssuedTokens == 1..(nextTok - 1)

\* User.findOne({'refreshTokens.tokenHash': tokenHash})
UsersWithToken(tokenHash) ==
  {id \in Ids : \E i \in 1..Len(users[id].refreshTokens) :
                   users[id].refreshTokens[i].tokenHash = tokenHash}

\* User.findByAccount(account)
UsersByAccount(account) ==
  {id \in Ids : users[id].email = ToLower(account) \/ users[id].username = account}

FirstOf(S) == CHOOSE id \in S : \A other \in S : id <= other

(***************************************************************************)
(* login                                                                   *)
(***************************************************************************)
LoginAfterFindGateFirst(doc) ==
  IF ~doc.isVerified THEN [pc |-> "done", res |-> "EMAIL_NOT_VERIFIED"]
  ELSE [pc |-> "compare", res |-> "none"]

\* What login does with the account it found: the password comparison.
LoginAfterFind(doc) == [pc |-> "compare", res |-> "none"]

\* const user = await User.findByAccount(account)
LoginFind(p, account, password, deviceInfo) ==
  /\ Ready(p)
  /\ LET found == UsersByAccount(account)
         start == [Idle EXCEPT !.op = "login", !.acct = account,
                               !.pw = password, !.dev = deviceInfo]
     IN IF found = {}
        THEN ReturnAtOnce(p, "login", "INVALID_CREDENTIALS", FALSE)
        ELSE LET doc == Load(FirstOf(found))
                 step == LoginAfterFind(doc)
             IN IF step.pc = "done"
                THEN ReturnAtOnce(p, "login", step.res, FALSE)
                ELSE Continue(p, [start EXCEPT !.pc = step.pc, !.doc = doc])
  /\ Started
  /\ UNCHANGED <<users, now, nextId, nextTok, nextTicket, lim,
                 rotated, consumed, regOk>>

\* const isPasswordValid = await user.comparePassword(password)
LoginCompare(p) ==
  /\ proc[p].op = "login" /\ proc[p].pc = "compare"
  /\ Continue(p, [proc[p] EXCEPT
       !.pc = "check", !.cmp = TRUE, !.acct = "",
       !.pwok = comparePassword(proc[p].pw, proc[p].doc.passwordHash)])
  /\ UNCHANGED <<users, now, nextId, nextTok, nextTicket, started, lim,
                 rotated, consumed, regOk>>

\* The document login saves: expired entries cleaned, the list limited,
\* the new session added.
LoginDoc(doc, tokenHash, deviceInfo) ==
  addRefreshToken(limitActiveTokens(cleanExpiredTokens(doc), MaxSessions),
                  tokenHash, getRefreshTokenExpiry(now),
                  deviceInfo.userAgent, deviceInfo.ipAddress)

\* The branches on isVerified and isPasswordValid, then steps 5 to 8.
LoginFinish(p) ==
  /\ proc[p].op = "login" /\ proc[p].pc = "check"
  /\ IF ~proc[p].doc.isVerified
     THEN /\ Return(p, "EMAIL_NOT_VERIFIED", 0)
          /\ UNCHANGED <<users, nextTok>>
     ELSE IF ~proc[p].pwok
     THEN /\ Return(p, "INVALID_CREDENTIALS", 0)
          /\ UNCHANGED <<users, nextTok>>
     ELSE LET refreshToken == nextTok
              doc == LoginDoc(proc[p].doc, hashRefreshToken(refreshToken),
                              proc[p].dev)
          IN /\ nextTok <= lim.toks
             /\ IF CanSave(doc)
                THEN /\ users' = [users EXCEPT ![doc.id] = SavedTokens(doc)]
                     /\ nextTok' = nextTok + 1
                     /\ ReturnWith(p, [Outcome(p, "OK", refreshToken) EXCEPT
                                         !.acc = generateAccessToken(doc),
                                         !.expiresIn = 900])
                ELSE /\ Return(p, SaveError(doc), 0)
                     /\ UNCHANGED <<users, nextTok>>
  /\ UNCHANGED <<now, nextId, nextTicket, started, lim, rotated, consumed, regOk>>

(***************************************************************************)
(* refreshAccessToken                                                      *)
(***************************************************************************)
\* const user = await User.findOne({'refreshTokens.tokenHash': tokenHash})
RefreshFind(p, refreshToken, deviceInfo) ==
  /\ Ready(p)
  /\ LET found == UsersWithToken(hashRefreshToken(refreshToken))
         start == [Idle EXCEPT !.op = "refresh", !.tok = refreshToken,
                               !.dev = deviceInfo,
                               !.late = (refreshToken \in rotated)]
     IN IF found = {}
        THEN ReturnWith(p, [NoOutcome EXCEPT
                              !.op = "refresh", !.res = "REFRESH_TOKEN_INVALID",
                              !.late = start.late, !.msg = "invalid"])
        ELSE Continue(p, [start EXCEPT !.pc = "loaded",
                                       !.doc = Load(FirstOf(found))])
  /\ Started
  /\ UNCHANGED <<users, now, nextId, nextTok, nextTicket, lim,
                 rotated, consumed, regOk>>

RefreshFailureExpiryFirst(tokenData) ==
  IF tokenData = NoToken THEN "invalid"
  ELSE IF tokenData.expiresAt < now THEN "expired"
  ELSE IF tokenData.isRevoked THEN "revoked"
  ELSE "none"

\* Steps 3 to 5: the failure refreshAccessToken throws for the entry it
\* found, named by its message (no entry, revoked, expired), or "none".
\* The three are ErrorFactory.refreshTokenInvalid with different messages.
RefreshFailure(tokenData) ==
  IF tokenData = NoToken THEN "invalid"
  ELSE IF tokenData.isRevoked THEN "revoked"
  ELSE IF tokenData.expiresAt < now THEN "expired"
  ELSE "none"

OrElseNothing(a, b) == a

\* a || b on device strings
OrElse(a, b) == IF a # "" THEN a ELSE b

\* Steps 7 to 10: the old entry removed, the new one added, expired cleaned.
RotateDoc(doc, tokenData, newHash, deviceInfo) ==
  cleanExpiredTokens(
    addRefreshToken(removeRefreshToken(doc, tokenData.tokenHash),
                    newHash, getRefreshTokenExpiry(now),
                    OrElse(deviceInfo.userAgent, tokenData.deviceInfo),
                    OrElse(deviceInfo.ipAddress, tokenData.ipAddress)))

\* Steps 3 to 10 and the save.
RefreshFinish(p) ==
  /\ proc[p].op = "refresh" /\ proc[p].pc = "loaded"
  /\ LET tokenHash == hashRefreshToken(proc[p].tok)
         tokenData == findRefreshToken(proc[p].doc, tokenHash)
         failure == RefreshFailure(tokenData)
     IN IF failure \in {"invalid", "revoked"}
        THEN /\ ReturnWith(p, [Outcome(p, "REFRESH_TOKEN_INVALID", 0) EXCEPT
                                 !.msg = failure])
             /\ UNCHANGED <<users, nextTok, rotated>>
        ELSE IF failure = "expired"
        THEN LET doc == removeRefreshToken(proc[p].doc, tokenHash)
             IN /\ IF CanSave(doc)
                   THEN /\ users' = [users EXCEPT ![doc.id] = SavedTokens(doc)]
                        /\ ReturnWith(p, [Outcome(p, "REFRESH_TOKEN_INVALID", 0)
                                            EXCEPT !.msg = failure])
                   ELSE /\ Return(p, SaveError(doc), 0)
                        /\ UNCHANGED users
                /\ UNCHANGED <<nextTok, rotated>>
        ELSE LET newRefreshToken == nextTok
                 doc == RotateDoc(proc[p].doc, tokenData,
                                  hashRefreshToken(newRefreshToken), proc[p].dev)
             IN /\ nextTok <= lim.toks
                /\ IF CanSave(doc)
                   THEN /\ users' = [users EXCEPT ![doc.id] = SavedTokens(doc)]
                        /\ nextTok' = nextTok + 1
                        /\ rotated' = rotated \cup {proc[p].tok}
                        /\ ReturnWith(p, [Outcome(p, "OK", newRefreshToken) EXCEPT
                                            !.dup = (proc[p].tok \in rotated),
                                            !.acc = generateAccessToken(doc),
                                            !.expiresIn = 900])
                   ELSE /\ Return(p, SaveError(doc), 0)
                        /\ UNCHANGED <<users, nextTok, rotated>>
  /\ UNCHANGED <<now, nextId, nextTicket, started, lim, consumed, regOk>>

(***************************************************************************)
(* logout                                                                  *)
(***************************************************************************)
\* logout(refreshToken): the lookup by hash.
LogoutFind(p, refreshToken) ==
  /\ Ready(p)
  /\ LET found == UsersWithToken(hashRefreshToken(refreshToken))
         start == [Idle EXCEPT !.op = "logout", !.tok = refreshToken]
     IN IF found = {}
        THEN ReturnAtOnce(p, "logout", "OK", FALSE)
        ELSE Continue(p, [start EXCEPT !.pc = "loaded",
                                       !.doc = Load(FirstOf(found))])
  /\ Started
  /\ UNCHANGED <<users, now, nextId, nextTok, nextTicket, lim,
                 rotated, consumed, regOk>>

\* logout(undefined, userId): User.findById(userId)
LogoutAllFind(p, userId) ==
  /\ Ready(p)
  /\ LET start == [Idle EXCEPT !.op = "logoutAll", !.uid = userId]
     IN IF userId \notin Ids
        THEN ReturnAtOnce(p, "logoutAll", "OK", FALSE)
        ELSE Continue(p, [start EXCEPT !.pc = "loaded", !.doc = Load(userId)])
  /\ Started
  /\ UNCHANGED <<users, now, nextId, nextTok, nextTicket, lim,
                 rotated, consumed, regOk>>

\* user.removeRefreshToken(tokenHash) or user.refreshTokens = [], and save.
LogoutSave(p) ==
  /\ proc[p].op \in {"logout", "logoutAll"} /\ proc[p].pc = "loaded"
  /\ LET doc == IF proc[p].op = "logout"
                THEN removeRefreshToken(proc[p].doc, hashRefreshToken(proc[p].tok))
                ELSE AssignTokens(proc[p].doc, <<>>)
     IN IF CanSave(doc)
        THEN /\ users' = [users EXCEPT ![doc.id] = SavedTokens(doc)]
             /\ Return(p, "OK", 0)
        ELSE /\ Return(p, SaveError(doc), 0)
             /\ UNCHANGED users
  /\ UNCHANGED <<now, nextId, nextTok, nextTicket, started, lim,
                 rotated, consumed, regOk>>

\* A value that is undefined in JavaScript.
Undefined == "undefined"

\* router.post('/logout'): const { refreshToken } = req.body, and
\* authService.logout(refreshToken); the arguments logout is called with.
LogoutRouteArgs(body) ==
  [ refreshToken |-> IF "refreshToken" \in DOMAIN body THEN body.refreshToken
                     ELSE Undefined,
    userId |-> Undefined ]

\* POST /logout with the body { userId }, as the README describes the
\* sign-out from all devices.  logout looks at refreshToken, then at userId,
\* and answers with success when both are undefined.
LogoutByUserId(p, userId) ==
  LET args == LogoutRouteArgs([userId |-> userId])
  IN IF args.refreshToken # Undefined THEN LogoutFind(p, args.refreshToken)
     ELSE IF args.userId # Undefined THEN LogoutAllFind(p, args.userId)
     ELSE /\ Ready(p)
          /\ proc' = [proc EXCEPT ![p] = Idle]
          /\ last' = [NoOutcome EXCEPT !.op = "logoutByUserId", !.res = "OK",
                                       !.out = userId]
          /\ Started
          /\ UNCHANGED <<users, now, nextId, nextTok, nextTicket, lim,
                         rotated, consumed, regOk>>

\* An HTTP request: the JSON body, the User-Agent header and the address
\* of the caller.
Request(body, userAgent, ip) == [body |-> body, userAgent |-> userAgent, ip |-> ip]

\* router.post('/login'): const { account, password } = req.body, and
\* authService.login(account, password); the arguments login is called
\* with.  No deviceInfo is passed.
LoginRouteArgs(req) ==
  [ account |-> req.body.account, password |-> req.body.password,
    deviceInfo |-> NoDevice ]

LoginRoute(p, req) ==
  LET args == LoginRouteArgs(req)
  IN LoginFind(p, args.account, args.password, args.deviceInfo)

\* router.post('/refresh'): const { refreshToken } = req.body, and
\* authService.refreshAccessToken(refreshToken).
RefreshRouteArgs(req) ==
  [ refreshToken |-> req.body.refreshToken, deviceInfo |-> NoDevice ]

RefreshRoute(p, req) ==
  LET args == RefreshRouteArgs(req)
  IN RefreshFind(p, args.refreshToken, args.deviceInfo)

(***************************************************************************)
(* register                                                                *)
(***************************************************************************)
\* Verification tickets generated so far; 0 is a value that was never issued.
IssuedTickets == 1..(nextTicket - 1)

\* User.findOne({ email: email.toLowerCase() })
UsersByEmail(email) == {id \in Ids : users[id].email = ToLower(email)}

\* User.findOne({ username })
UsersByUsername(username) == {id \in Ids : users[id].username = username}

\* ErrorFactory.conflict(message, details): status 409, code CONFLICT.
conflict(message, field) ==
  [ http |-> 409, code |-> "CONFLICT", msg |-> message, field |-> field ]

\* What the pre-check of field throws.
PreCheckConflict(field) ==
  IF field = "email" THEN conflict("email may be in use or registered", "email")
  ELSE conflict("username may be in use, try another", "username")

DuplicateKeyUnknown(conflictField) ==
  conflict("registration failed, check your information", "")

\* What the catch of error 11000 throws for the first key of keyPattern.
DuplicateKeyConflict(conflictField) ==
  IF conflictField = "email"
  THEN conflict("email may be in use or registered", "email")
  ELSE IF conflictField = "username"
  THEN conflict("username may be in use, try another", "username")
  ELSE conflict("registration failed, check your information", "")

\* The response of a register that threw error, a conflict on field.
Refused(field, error) ==
  [NoOutcome EXCEPT !.op = "register",
                    !.res = error.code \o "_" \o field,
                    !.http = error.http, !.msg = error.msg,
                    !.field = error.field]

\* Step 1: the e-mail pre-check.
RegCheckEmail(p, email, username, password) ==
  /\ Ready(p)
  /\ IF UsersByEmail(email) # {}
     THEN ReturnWith(p, Refused("email", PreCheckConflict("email")))
     ELSE Continue(p, [Idle EXCEPT !.op = "register", !.pc = "checkUsername",
                                   !.acct = email, !.uname = username,
                                   !.pw = password, !.pass = 1])
  /\ Started
  /\ UNCHANGED <<users, now, nextId, nextTok, nextTicket, lim,
                 rotated, consumed, regOk>>

\* Step 2: the username pre-check.
RegCheckUsername(p) ==
  /\ proc[p].op = "register" /\ proc[p].pc = "checkUsername"
  /\ IF UsersByUsername(proc[p].uname) # {}
     THEN ReturnWith(p, Refused("username", PreCheckConflict("username")))
     ELSE Continue(p, [proc[p] EXCEPT !.pc = "create"])
  /\ UNCHANGED <<users, now, nextId, nextTok, nextTicket, started, lim,
                 rotated, consumed, regOk>>

UniqueIndexOff(email, username) == "none"

\* The unique indexes on email and username: the field whose index rejects
\* the insert (error 11000), or "none".
UniqueIndexConflict(email, username) ==
  IF UsersByEmail(email) # {} THEN "email"
  ELSE IF UsersByUsername(username) # {} THEN "username"
  ELSE "none"

\* Step 3: User.createUser, and the catch of error 11000.
RegCreate(p) ==
  /\ proc[p].op = "register" /\ proc[p].pc = "create"
  /\ LET field == UniqueIndexConflict(proc[p].acct, proc[p].uname)
     IN IF field # "none"
        THEN /\ ReturnWith(p, [Refused(field, DuplicateKeyConflict(field))
                                  EXCEPT !.dup = TRUE])
             /\ UNCHANGED <<users, nextId>>
        ELSE /\ nextId <= lim.ids
             /\ users' = [id \in Ids \cup {nextId} |->
                            IF id = nextId
                            THEN NewUser(proc[p].acct, proc[p].uname, proc[p].pw)
                            ELSE users[id]]
             /\ nextId' = nextId + 1
             /\ Continue(p, [Idle EXCEPT !.op = "register", !.pc = "saveToken",
                                         !.uid = nextId])
  /\ UNCHANGED <<now, nextTok, nextTicket, started, lim,
                 rotated, consumed, regOk>>

SavedTicketFirstKept(doc, token, expires) ==
  IF users[doc.id].verificationToken # 0 THEN users[doc.id]
  ELSE [users[doc.id] EXCEPT !.verificationToken = token,
                             !.verificationTokenExpires = expires]

SavedTicketWholeDocument(doc, token, expires) ==
  [users[doc.id] EXCEPT !.verificationToken = token,
                        !.verificationTokenExpires = expires,
                        !.isVerified = doc.isVerified]

\* The stored account after save() of a document whose ticket fields were
\* assigned: only these two paths are written.
SavedTicket(doc, token, expires) ==
  [users[doc.id] EXCEPT !.verificationToken = token,
                        !.verificationTokenExpires = expires]

\* Step 4: the ticket is generated and saved.
RegSaveToken(p) ==
  /\ proc[p].op = "register" /\ proc[p].pc = "saveToken"
  /\ nextTicket <= lim.tickets
  /\ LET doc == Load(proc[p].uid)
     IN users' = [users EXCEPT ![doc.id] =
                    SavedTicket(doc, nextTicket, getVerificationTokenExpiry(now))]
  /\ nextTicket' = nextTicket + 1
  /\ Continue(p, [proc[p] EXCEPT !.pc = "send", !.att = 1])
  /\ UNCHANGED <<now, nextId, nextTok, started, lim,
                 rotated, consumed, regOk>>

NoRollbackAfter(attempt, sent) ==
  IF sent \/ attempt >= MaxRetries THEN "sent" ELSE "retry"

\* Step 5, one turn of the loop: what follows attempt number attempt.
AfterAttempt(attempt, sent) ==
  IF sent THEN "sent"
  ELSE IF attempt < MaxRetries THEN "retry" ELSE "rollback"

NoBackoff(attempt) == 0

\* The wait at the head of turn number attempt of the loop, in seconds:
\* if (attempt > 1) await setTimeout(attempt * 1000).
Backoff(attempt) == IF attempt > 1 THEN attempt ELSE 0

\* One turn of the loop: the wait, then one call of
\* emailService.sendVerificationEmail, which may throw.
RegSend(p, sent) ==
  /\ proc[p].op = "register" /\ proc[p].pc = "send"
  /\ LET next == AfterAttempt(proc[p].att, sent)
         waited == proc[p].waited + Backoff(proc[p].att)
     IN CASE next = "sent" ->
               /\ regOk' = regOk \cup {proc[p].uid}
               /\ ReturnWith(p, [Outcome(p, "OK", proc[p].uid)
                                   EXCEPT !.sent = sent, !.waited = waited])
          [] next = "retry" ->
               /\ Continue(p, [proc[p] EXCEPT !.att = proc[p].att + 1,
                                              !.waited = waited])
               /\ UNCHANGED regOk
          [] next = "rollback" ->
               /\ Continue(p, [proc[p] EXCEPT !.pc = "rollback",
                                              !.waited = waited])
               /\ UNCHANGED regOk
  /\ UNCHANGED <<users, now, nextId, nextTok, nextTicket, started, lim,
                 rotated, consumed>>

\* User.findByIdAndDelete(user._id), then the e-mail error is thrown.
RegRollback(p) ==
  /\ proc[p].op = "register" /\ proc[p].pc = "rollback"
  /\ users' = [id \in Ids \ {proc[p].uid} |-> users[id]]
  /\ Return(p, "EMAIL_SEND_FAILED", proc[p].uid)
  /\ UNCHANGED <<now, nextId, nextTok, nextTicket, started, lim,
                 rotated, consumed, regOk>>

(***************************************************************************)
(* verifyEmail                                                             *)
(***************************************************************************)
\* User.findOne({ verificationToken: token,
\*                verificationTokenExpires: { $gt: new Date() } })
UsersByTicketAnyTime(token) ==
  {id \in Ids : users[id].verificationToken = token}

\* User.findOne({ verificationToken: token,
\*                verificationTokenExpires: { $gt: new Date() } })
UsersByTicket(token) ==
  {id \in Ids : /\ users[id].verificationToken = token
                /\ users[id].verificationTokenExpires > now}

\* The failed request answers with the ticket it was given in out.
VerifyFind(p, token) ==
  /\ Ready(p)
  /\ LET found == UsersByTicket(token)
     IN IF found = {}
        THEN ReturnWith(p, [NoOutcome EXCEPT
                              !.op = "verify",
                              !.res = "VERIFICATION_TOKEN_EXPIRED",
                              !.out = token,
                              !.late = (token \in consumed)])
        ELSE Continue(p, [Idle EXCEPT !.op = "verify", !.pc = "loaded",
                                      !.tok = token, !.doc = Load(FirstOf(found)),
                                      !.late = (token \in consumed)])
  /\ Started
  /\ UNCHANGED <<users, now, nextId, nextTok, nextTicket, lim,
                 rotated, consumed, regOk>>

SavedVerifiedKeepsTicket(doc) == [users[doc.id] EXCEPT !.isVerified = TRUE]

\* The stored account after save() of the verified document.
SavedVerified(doc) ==
  [users[doc.id] EXCEPT !.isVerified = TRUE,
                        !.verificationToken = 0,
                        !.verificationTokenExpires = 0]

VerifySave(p) ==
  /\ proc[p].op = "verify" /\ proc[p].pc = "loaded"
  /\ IF proc[p].doc.id \in Ids
     THEN /\ users' = [users EXCEPT ![proc[p].doc.id] = SavedVerified(proc[p].doc)]
          /\ consumed' = consumed \cup {proc[p].tok}
          /\ ReturnWith(p, [Outcome(p, "OK", proc[p].doc.id) EXCEPT
                              !.dup = (proc[p].tok \in consumed)])
     ELSE /\ Return(p, "DocumentNotFoundError", 0)
          /\ UNCHANGED <<users, consumed>>
  /\ UNCHANGED <<now, nextId, nextTok, nextTicket, started, lim,
                 rotated, regOk>>

\* The pages of router.get('/verify'): the status, the title, the message
\* and the hint under it.
VerifyNoTokenPage ==
  [ status |-> "400", title |-> "verification failed",
    message |-> "link invalid or expired",
    hint |-> "contact support or use resend" ]

VerifyFailurePage ==
  [ status |-> "400", title |-> "verification failed",
    message |-> "link invalid or expired",
    hint |-> "use resend" ]

VerifySuccessPage ==
  [ status |-> "200", title |-> "verification succeeded",
    message |-> "account verified", hint |-> "log in" ]

VerifyRouteTelling(query, res) ==
  IF "token" \notin DOMAIN query THEN VerifyNoTokenPage
  ELSE IF res = "OK" THEN VerifySuccessPage
  ELSE [VerifyFailurePage EXCEPT !.message = res]

\* router.get('/verify') around a verifyEmail that ended with res: the page
\* of the missing token, the success page, and in the catch the page with
\* safeMessage.
VerifyRoute(query, res) ==
  IF "token" \notin DOMAIN query THEN VerifyNoTokenPage
  ELSE IF res = "OK" THEN VerifySuccessPage
  ELSE VerifyFailurePage

(***************************************************************************)
(* resendVerificationEmail                                                 *)
(***************************************************************************)
ResendResponseTelling(case) ==
  CASE case = "unknown" -> "EMAIL_NOT_REGISTERED"
    [] case = "verified" -> "EMAIL_ALREADY_VERIFIED"
    [] OTHER -> "SENT_IF_REGISTERED"

\* The response of resendVerificationEmail at each of its returns: success
\* with the message that a mail is sent if the address is registered.
ResendResponse(case) ==
  CASE case = "unknown" -> "SENT_IF_REGISTERED"
    [] case = "verified" -> "SENT_IF_REGISTERED"
    [] case \in {"sent", "notSent"} -> "SENT_IF_REGISTERED"
    [] case = "storeError" -> "SENT_IF_REGISTERED"

\* const user = await User.findOne({ email: email.toLowerCase() }), and the
\* branches on !user and user.isVerified.
ResendFind(p, email) ==
  /\ Ready(p)
  /\ LET found == UsersByEmail(email)
     IN IF found = {}
        THEN ReturnAtOnce(p, "resend", ResendResponse("unknown"), FALSE)
        ELSE IF users[FirstOf(found)].isVerified
        THEN ReturnAtOnce(p, "resend", ResendResponse("verified"), FALSE)
        ELSE Continue(p, [Idle EXCEPT !.op = "resend", !.pc = "loaded",
                                      !.doc = Load(FirstOf(found))])
  /\ Started
  /\ UNCHANGED <<users, now, nextId, nextTok, nextTicket, lim,
                 rotated, consumed, regOk>>

\* The new ticket is saved; an error of save() is caught by the outer catch
\* and answered like a success.
ResendSave(p) ==
  /\ proc[p].op = "resend" /\ proc[p].pc = "loaded"
  /\ IF proc[p].doc.id \in Ids
     THEN /\ nextTicket <= lim.tickets
          /\ users' = [users EXCEPT ![proc[p].doc.id] =
                SavedTicket(proc[p].doc, nextTicket,
                            getVerificationTokenExpiry(now))]
          /\ nextTicket' = nextTicket + 1
          /\ Continue(p, [proc[p] EXCEPT !.pc = "send", !.doc = NoDoc])
     ELSE /\ Return(p, ResendResponse("storeError"), 0)
          /\ UNCHANGED <<users, nextTicket>>
  /\ UNCHANGED <<now, nextId, nextTok, started, lim,
                 rotated, consumed, regOk>>

\* emailService.sendVerificationEmail; its error is caught.
ResendSend(p, sent) ==
  /\ proc[p].op = "resend" /\ proc[p].pc = "send"
  /\ Return(p, ResendResponse(IF sent THEN "sent" ELSE "notSent"), 0)
  /\ UNCHANGED <<users, now, nextId, nextTok, nextTicket, started, lim,
                 rotated, consumed, regOk>>

(***************************************************************************)
(* The clock.                                                              *)
(***************************************************************************)
Tick ==
  /\ now < lim.clock
  /\ now' = now + 1
  /\ last' = NoOutcome
  /\ UNCHANGED <<users, proc, nextId, nextTok, nextTicket, started, lim,
                 rotated, consumed, regOk>>

(***************************************************************************)
(* Specifications.                                                         *)
(***************************************************************************)
\* An account that registered and verified its e-mail.
VerifiedUser == [NewUser("a@x", "alice", "pw1") EXCEPT !.isVerified = TRUE]

SessionStep(p) ==
  \/ \E deviceInfo \in DeviceInfos : LoginFind(p, "alice", "pw1", deviceInfo)
  \/ LoginCompare(p)
  \/ LoginFinish(p)
  \/ \E refreshToken \in {0} \cup IssuedTokens, deviceInfo \in DeviceInfos :
        RefreshFind(p, refreshToken, deviceInfo)
  \/ RefreshFinish(p)
  \/ \E refreshToken \in {0} \cup IssuedTokens : LogoutFind(p, refreshToken)
  \/ \E userId \in 1..(nextId - 1) : LogoutAllFind(p, userId)
  \/ LogoutSave(p)

\* The session operations of two concurrent requests on a verified account
\* whose logins present the right password.
InitSess ==
  /\ users = [id \in {1} |-> VerifiedUser]
  /\ proc = [p \in Procs |-> Idle]
  /\ last = NoOutcome
  /\ now = 0
  /\ nextId = 2
  /\ nextTok = 1
  /\ nextTicket = 1
  /\ started = 0
  /\ lim = Limits(0, 1, 0, MaxTokSess, MaxTimeSess, 2)
  /\ rotated = {}
  /\ consumed = {}
  /\ regOk = {}

NextSess == Tick \/ \E p \in Procs : SessionStep(p)

SpecSess == InitSess /\ [][NextSess]_vars

AccountStep(p) ==
  \/ \E email \in Emails, username \in Usernames, password \in Passwords :
        RegCheckEmail(p, email, username, password)
  \/ RegCheckUsername(p)
  \/ RegCreate(p)
  \/ RegSaveToken(p)
  \/ \E sent \in BOOLEAN : RegSend(p, sent)
  \/ RegRollback(p)
  \/ \E token \in {0} \cup IssuedTickets : VerifyFind(p, token)
  \/ VerifySave(p)
  \/ \E email \in Emails : ResendFind(p, email)
  \/ ResendSave(p)
  \/ \E sent \in BOOLEAN : ResendSend(p, sent)

LoginStep(p) ==
  \/ \E account \in Emails \cup Usernames, password \in Passwords,
        deviceInfo \in DeviceInfos : LoginFind(p, account, password, deviceInfo)
  \/ LoginCompare(p)
  \/ LoginFinish(p)

TokenStep(p) ==
  \/ \E refreshToken \in {0} \cup IssuedTokens, deviceInfo \in DeviceInfos :
        RefreshFind(p, refreshToken, deviceInfo)
  \/ RefreshFinish(p)
  \/ \E refreshToken \in {0} \cup IssuedTokens : LogoutFind(p, refreshToken)
  \/ \E userId \in 1..(nextId - 1) : LogoutAllFind(p, userId)
  \/ LogoutSave(p)

\* The service after start-up: an empty store, every operation available to
\* every request.
Init ==
  /\ users = [id \in {} |-> NewUser("a@x", "alice", "pw1")]
  /\ proc = [p \in Procs |-> Idle]
  /\ last = NoOutcome
  /\ now = 0
  /\ nextId = 1
  /\ nextTok = 1
  /\ nextTicket = 1
  /\ started = 0
  /\ lim = Limits(MaxOps, MaxOps, MaxOps, MaxOps, MaxTime, 2)
  /\ rotated = {}
  /\ consumed = {}
  /\ regOk = {}

Next == Tick \/ \E p \in Procs : AccountStep(p) \/ LoginStep(p) \/ TokenStep(p)

Spec == Init /\ [][Next]_vars

\* Logins with the right password, refreshes and sign-out requests by
\* userId, one request after the other, on a verified account.
InitSeq ==
  /\ users = [id \in {1} |-> VerifiedUser]
  /\ proc = [p \in Procs |-> Idle]
  /\ last = NoOutcome
  /\ now = 0
  /\ nextId = 2
  /\ nextTok = 1
  /\ nextTicket = 1
  /\ started = 0
  /\ lim = Limits(0, 1, 0, MaxTokSeq, MaxTimeSeq, 1)
  /\ rotated = {}
  /\ consumed = {}
  /\ regOk = {}

SeqStep(p) ==
  \/ \E deviceInfo \in DeviceInfos : LoginFind(p, "alice", "pw1", deviceInfo)
  \/ LoginCompare(p)
  \/ LoginFinish(p)
  \/ \E refreshToken \in IssuedTokens, deviceInfo \in DeviceInfos :
        RefreshFind(p, refreshToken, deviceInfo)
  \/ RefreshFinish(p)
  \/ \E userId \in 1..(nextId - 1) : LogoutByUserId(p, userId)

NextSeq == Tick \/ \E p \in Procs : SeqStep(p)

SpecSeq == InitSeq /\ [][NextSeq]_vars

\* A second account that registered and verified its e-mail.
OtherVerifiedUser == [NewUser("b@x", "bob", "pw1") EXCEPT !.isVerified = TRUE]

\* Logins, refreshes and logouts of two concurrent requests on two verified
\* accounts, within the lifetime of the tokens.
InitTwo ==
  /\ users = [id \in {1, 2} |-> IF id = 1 THEN VerifiedUser ELSE OtherVerifiedUser]
  /\ proc = [p \in Procs |-> Idle]
  /\ last = NoOutcome
  /\ now = 0
  /\ nextId = 3
  /\ nextTok = 1
  /\ nextTicket = 1
  /\ started = 0
  /\ lim = Limits(0, 2, 0, MaxTokTwo, 0, 2)
  /\ rotated = {}
  /\ consumed = {}
  /\ regOk = {}

TwoStep(p) ==
  \/ \E account \in {"alice", "bob"}, deviceInfo \in DeviceInfos :
        LoginFind(p, account, "pw1", deviceInfo)
  \/ LoginCompare(p)
  \/ LoginFinish(p)
  \/ \E refreshToken \in IssuedTokens, deviceInfo \in DeviceInfos :
        RefreshFind(p, refreshToken, deviceInfo)
  \/ RefreshFinish(p)
  \/ \E refreshToken \in {0} \cup IssuedTokens : LogoutFind(p, refreshToken)
  \/ LogoutSave(p)

NextTwo == \E p \in Procs : TwoStep(p)

SpecTwo == InitTwo /\ [][NextTwo]_vars

\* The tokens a caller can present: made under the configured algorithm,
\* under another RSA algorithm or as an HMAC; signed with the private key of
\* the service, with another private key, or with the public key as HMAC
\* secret; every expiry, issuer and audience.
AccessTokenInputs ==
  { [ alg |-> ak[1], key |-> ak[2], sub |-> 1, exp |-> exp, iss |-> iss, aud |-> aud ] :
      ak \in {<<"RS256", "private">>, <<"RS256", "other">>,
              <<"RS384", "private">>, <<"RS384", "other">>,
              <<"HS256", "public">>},
      exp \in 0..(MaxTimeJwt + 1),
      iss \in {"authCore", "other"},
      aud \in {"authCore-api", "other"} }

\* A call of tokenService.verifyAccessToken(token).
VerifyAccessToken(token) ==
  /\ last' = [NoOutcome EXCEPT
               !.op = "verifyAccessToken",
               !.res = IF verifyAccessToken(token) = Null THEN "null" ELSE "claims",
               !.out = verifyAccessToken(token).userId,
               !.acc = token]
  /\ UNCHANGED <<users, proc, now, nextId, nextTok, nextTicket, started, lim,
                 rotated, consumed, regOk>>

\* The Authorization headers a caller can send to a protected route: none,
\* one word only, another scheme, and Bearer with each token.
NoHeader == [scheme |-> "", parts |-> 0, token |-> NoAccess]
AuthHeaders ==
  {NoHeader, [scheme |-> "Bearer", parts |-> 1, token |-> NoAccess]}
  \cup {[scheme |-> scheme, parts |-> 2, token |-> token] :
          scheme \in {"Bearer", "Basic"}, token \in AccessTokenInputs}

\* The name of the error jwt.verify(token, publicKey, { algorithms: ['RS256'],
\* issuer: 'authCore', audience: 'authCore-api' }) throws, or "none".
jwtVerifyError(token) ==
  IF token.alg \notin {"RS256"} THEN "JsonWebTokenError"
  ELSE IF ~SignatureValid(token, "public") THEN "JsonWebTokenError"
  ELSE IF now >= token.exp THEN "TokenExpiredError"
  ELSE IF token.aud # "authCore-api" THEN "JsonWebTokenError"
  ELSE IF token.iss # "authCore" THEN "JsonWebTokenError"
  ELSE "none"

\* What jwtVerify(req, res, next) does: the status and the code of its
\* answer, or the call of next with req.user set.  A body without a code
\* has the code "".
jwtVerify(header) ==
  LET answer(status, code) == [http |-> status, code |-> code, next |-> FALSE, userId |-> 0]
  IN IF header = NoHeader THEN answer(401, "")
     ELSE IF header.parts # 2 \/ header.scheme # "Bearer" THEN answer(401, "")
     ELSE IF jwtVerifyError(header.token) = "none"
     THEN [http |-> 0, code |-> "", next |-> TRUE, userId |-> Payload(header.token).userId]
     ELSE IF jwtVerifyError(header.token) = "TokenExpiredError"
     THEN answer(401, "TOKEN_EXPIRED")
     ELSE IF jwtVerifyError(header.token) = "JsonWebTokenError"
     THEN answer(401, "TOKEN_INVALID")
     ELSE answer(500, "")

\* A request to a route of the business system that jwtVerify protects.
ProtectedRequest(header) ==
  /\ last' = [NoOutcome EXCEPT
               !.op = "jwtVerify",
               !.res = IF jwtVerify(header).next THEN "next" ELSE jwtVerify(header).code,
               !.out = jwtVerify(header).userId,
               !.http = jwtVerify(header).http,
               !.auth = IF header = NoHeader THEN "none" ELSE header.scheme,
               !.acc = header.token,
               !.tries = header.parts]
  /\ UNCHANGED <<users, proc, now, nextId, nextTok, nextTicket, started, lim,
                 rotated, consumed, regOk>>

\* The business system: requests with every header, at every time.
InitMw ==
  /\ users = [id \in {1} |-> VerifiedUser]
  /\ proc = [p \in Procs |-> Idle]
  /\ last = NoOutcome
  /\ now = 0
  /\ nextId = 2
  /\ nextTok = 1
  /\ nextTicket = 1
  /\ started = 0
  /\ lim = Limits(0, 1, 0, 0, MaxTimeJwt, 1)
  /\ rotated = {}
  /\ consumed = {}
  /\ regOk = {}

NextMw == Tick \/ \E header \in AuthHeaders : ProtectedRequest(header)

SpecMw == InitMw /\ [][NextMw]_vars

\* Logins, logouts and global sign-outs of a verified account, one request
\* after the other, and verifyAccessToken on the tokens a caller can
\* present.
InitJwt ==
  /\ users = [id \in {1} |-> VerifiedUser]
  /\ proc = [p \in Procs |-> Idle]
  /\ last = NoOutcome
  /\ now = 0
  /\ nextId = 2
  /\ nextTok = 1
  /\ nextTicket = 1
  /\ started = 0
  /\ lim = Limits(0, 1, 0, MaxTokJwt, MaxTimeJwt, 1)
  /\ rotated = {}
  /\ consumed = {}
  /\ regOk = {}

JwtStep(p) ==
  \/ \E deviceInfo \in DeviceInfos : LoginFind(p, "alice", "pw1", deviceInfo)
  \/ LoginCompare(p)
  \/ LoginFinish(p)
  \/ \E refreshToken \in IssuedTokens : LogoutFind(p, refreshToken)
  \/ \E userId \in 1..(nextId - 1) : LogoutAllFind(p, userId)
  \/ LogoutSave(p)

NextJwt ==
  \/ Tick
  \/ \E p \in Procs : JwtStep(p)
  \/ \E token \in AccessTokenInputs : VerifyAccessToken(token)

SpecJwt == InitJwt /\ [][NextJwt]_vars

\* Registrations with either spelling of the e-mail address under two
\* usernames, with a notifier that delivers, and logins by either spelling,
\* on an empty store.
InitCase ==
  /\ users = [id \in {} |-> NewUser("a@x", "alice", "pw1")]
  /\ proc = [p \in Procs |-> Idle]
  /\ last = NoOutcome
  /\ now = 0
  /\ nextId = 1
  /\ nextTok = 1
  /\ nextTicket = 1
  /\ started = 0
  /\ lim = Limits(MaxOpsCase, MaxOpsCase, MaxOpsCase, 0, 0, 2)
  /\ rotated = {}
  /\ consumed = {}
  /\ regOk = {}

\* Registrations with two addresses under two usernames, with a notifier
\* that may fail, on an empty store.
InitReg ==
  /\ users = [id \in {} |-> NewUser("a@x", "alice", "pw1")]
  /\ proc = [p \in Procs |-> Idle]
  /\ last = NoOutcome
  /\ now = 0
  /\ nextId = 1
  /\ nextTok = 1
  /\ nextTicket = 1
  /\ started = 0
  /\ lim = Limits(MaxOpsReg, MaxOpsReg, MaxOpsReg, 0, 0, 2)
  /\ rotated = {}
  /\ consumed = {}
  /\ regOk = {}

RegStep(p) ==
  \/ \E email \in {"a@x", "b@x"}, username \in {"alice", "bob"} :
        RegCheckEmail(p, email, username, "pw1")
  \/ RegCheckUsername(p)
  \/ RegCreate(p)
  \/ RegSaveToken(p)
  \/ \E sent \in BOOLEAN : RegSend(p, sent)
  \/ RegRollback(p)

NextReg == \E p \in Procs : RegStep(p)

SpecReg == InitReg /\ [][NextReg]_vars

\* An account after a register that delivered ticket 1 at time 0; two
\* concurrent requests resend and verify with every ticket while the
\* tickets expire.
InitTicket ==
  /\ users = [id \in {1} |->
               [NewUser("a@x", "alice", "pw1") EXCEPT
                  !.verificationToken = 1,
                  !.verificationTokenExpires = getVerificationTokenExpiry(0)]]
  /\ proc = [p \in Procs |-> Idle]
  /\ last = NoOutcome
  /\ now = 0
  /\ nextId = 2
  /\ nextTok = 1
  /\ nextTicket = 2
  /\ started = 0
  /\ lim = Limits(0, 1, 1 + MaxTicketsResent, 0, MaxTimeTicket, 2)
  /\ rotated = {}
  /\ consumed = {}
  /\ regOk = {1}

NextTicket ==
  \/ Tick
  \/ \E p \in Procs :
        \/ \E token \in {0} \cup IssuedTickets : VerifyFind(p, token)
        \/ VerifySave(p)
        \/ \E email \in Emails : ResendFind(p, email)
        \/ ResendSave(p)
        \/ \E sent \in BOOLEAN : ResendSend(p, sent)

SpecTicket == InitTicket /\ [][NextTicket]_vars

\* The steps of a register after its first: every storage call and every
\* call of the notifier comes back, with a result or an error.
RegGoesOn(p) ==
  \/ RegCheckUsername(p)
  \/ RegCreate(p)
  \/ RegSaveToken(p)
  \/ \E sent \in BOOLEAN : RegSend(p, sent)
  \/ RegRollback(p)

SpecRegFair == SpecReg /\ \A p \in Procs : WF_vars(RegGoesOn(p))

CaseStep(p) ==
  \/ \E email \in Emails, username \in {"alice", "bob"} :
        RegCheckEmail(p, email, username, "pw1")
  \/ RegCheckUsername(p)
  \/ RegCreate(p)
  \/ RegSaveToken(p)
  \/ RegSend(p, TRUE)
  \/ \E account \in Emails, deviceInfo \in DeviceInfos :
        LoginFind(p, account, "pw1", deviceInfo)
  \/ LoginCompare(p)
  \/ LoginFinish(p)

NextCase == \E p \in Procs : CaseStep(p)

SpecCase == InitCase /\ [][NextCase]_vars

\* Requests to POST /login and POST /refresh of two concurrent callers on a
\* verified account, each with its User-Agent and address.
InitRoute ==
  /\ users = [id \in {1} |-> VerifiedUser]
  /\ proc = [p \in Procs |-> Idle]
  /\ last = NoOutcome
  /\ now = 0
  /\ nextId = 2
  /\ nextTok = 1
  /\ nextTicket = 1
  /\ started = 0
  /\ lim = Limits(0, 1, 0, MaxTokRoute, 0, 2)
  /\ rotated = {}
  /\ consumed = {}
  /\ regOk = {}

RouteStep(p) ==
  \/ \E userAgent \in Devices, ip \in IpAddresses :
        LoginRoute(p, Request([account |-> "alice", password |-> "pw1"],
                              userAgent, ip))
  \/ LoginCompare(p)
  \/ LoginFinish(p)
  \/ \E refreshToken \in IssuedTokens, userAgent \in Devices, ip \in IpAddresses :
        RefreshRoute(p, Request([refreshToken |-> refreshToken], userAgent, ip))
  \/ RefreshFinish(p)

NextRoute == \E p \in Procs : RouteStep(p)

SpecRoute == InitRoute /\ [][NextRoute]_vars

\* The same requests in a service started with ACCESS_TOKEN_EXPIRE unset or
\* set to a time span.
InitLife ==
  /\ users = [id \in {1} |-> VerifiedUser]
  /\ proc = [p \in Procs |-> Idle]
  /\ last = NoOutcome
  /\ now = 0
  /\ nextId = 2
  /\ nextTok = 1
  /\ nextTicket = 1
  /\ started = 0
  /\ \/ lim = Limits(0, 1, 0, MaxTokRoute, 0, 2)
     \/ \E span \in {"15m", "30m", "1h"} :
           lim = Limits(0, 1, 0, MaxTokRoute, 0, 2) @@ [ACCESS_TOKEN_EXPIRE |-> span]
  /\ rotated = {}
  /\ consumed = {}
  /\ regOk = {}

SpecLife == InitLife /\ [][NextRoute]_vars

\* The account after MaxSessions + 1 logins at time 0 from one device, the
\* longest list that logins one after the other leave: the sessions of the
\* refresh tokens 1 to MaxSessions + 1, each saved with a push.
UserAtCap ==
  [VerifiedUser EXCEPT
     !.refreshTokens = [t \in 1..(MaxSessions + 1) |->
                          [ tokenHash |-> hashRefreshToken(t),
                            expiresAt |-> getRefreshTokenExpiry(0),
                            createdAt |-> 0,
                            deviceInfo |-> "ua1",
                            ipAddress |-> "ip1",
                            isRevoked |-> FALSE ]],
     !.v = MaxSessions + 1]

\* The session operations of two concurrent requests on an account that
\* holds MaxSessions + 1 sessions; the callers present the token of the oldest
\* session or a token minted since.
InitCap ==
  /\ users = [id \in {1} |-> UserAtCap]
  /\ proc = [p \in Procs |-> Idle]
  /\ last = NoOutcome
  /\ now = 0
  /\ nextId = 2
  /\ nextTok = MaxSessions + 2
  /\ nextTicket = 1
  /\ started = 0
  /\ lim = Limits(0, 1, 0, MaxSessions + 1 + MaxTokCap, MaxTimeCap, 2)
  /\ rotated = {}
  /\ consumed = {}
  /\ regOk = {}

CapTokens == {1} \cup (IssuedTokens \ (1..(MaxSessions + 1)))

CapStep(p) ==
  \/ \E deviceInfo \in DeviceInfos : LoginFind(p, "alice", "pw1", deviceInfo)
  \/ LoginCompare(p)
  \/ LoginFinish(p)
  \/ \E refreshToken \in CapTokens, deviceInfo \in DeviceInfos :
        RefreshFind(p, refreshToken, deviceInfo)
  \/ RefreshFinish(p)
  \/ \E refreshToken \in CapTokens : LogoutFind(p, refreshToken)
  \/ \E userId \in 1..(nextId - 1) : LogoutAllFind(p, userId)
  \/ LogoutSave(p)

NextCap == Tick \/ \E p \in Procs : CapStep(p)

SpecCap == InitCap /\ [][NextCap]_vars

\* The session operations of two concurrent requests on an account that
\* holds MaxSessions sessions, after the logout of the session of token
\* MaxSessions + 1, with the clock standing still.
InitFive ==
  /\ users = [id \in {1} |->
               [UserAtCap EXCEPT
                  !.refreshTokens = SubSeq(UserAtCap.refreshTokens, 1, MaxSessions),
                  !.v = MaxSessions + 2]]
  /\ proc = [p \in Procs |-> Idle]
  /\ last = NoOutcome
  /\ now = 0
  /\ nextId = 2
  /\ nextTok = MaxSessions + 2
  /\ nextTicket = 1
  /\ started = 0
  /\ lim = Limits(0, 1, 0, MaxSessions + 1 + MaxTokFive, 0, 2)
  /\ rotated = {}
  /\ consumed = {}
  /\ regOk = {}

NextFive == \E p \in Procs : CapStep(p)

SpecFive == InitFive /\ [][NextFive]_vars

\* An account with the sessions of three logins at time 0.  The session of
\* token 2 carries the revoked flag: no operation of the service sets the
\* flag, it is set in the store from outside.  The session of token 3 was
\* created with a lifetime one tick longer.  The logins came from a device
\* ua0 at address ip0, which no later request comes from.
UserWithRevoked ==
  [VerifiedUser EXCEPT
     !.refreshTokens = [t \in 1..3 |->
                          [ tokenHash |-> hashRefreshToken(t),
                            expiresAt |-> getRefreshTokenExpiry(0) + (IF t = 3 THEN 1 ELSE 0),
                            createdAt |-> 0,
                            deviceInfo |-> "ua0",
                            ipAddress |-> "ip0",
                            isRevoked |-> (t = 2) ]],
     !.v = 3]

\* Refreshes of two concurrent requests with every token, while the
\* sessions expire.
InitRefresh ==
  /\ users = [id \in {1} |-> UserWithRevoked]
  /\ proc = [p \in Procs |-> Idle]
  /\ last = NoOutcome
  /\ now = 0
  /\ nextId = 2
  /\ nextTok = 4
  /\ nextTicket = 1
  /\ started = 0
  /\ lim = Limits(0, 1, 0, 3 + MaxTokRefresh, MaxTimeRefresh, 2)
  /\ rotated = {}
  /\ consumed = {}
  /\ regOk = {}

RefreshStep(p) ==
  \/ \E refreshToken \in {0} \cup IssuedTokens,
        deviceInfo \in DeviceInfos \cup {NoDevice} :
        RefreshFind(p, refreshToken, deviceInfo)
  \/ RefreshFinish(p)

NextRefresh == Tick \/ \E p \in Procs : RefreshStep(p)

SpecRefresh == InitRefresh /\ [][NextRefresh]_vars

(***************************************************************************)
(* The global error handler.                                               *)
(***************************************************************************)
\* The error object a route passes to next(error) for the failed outcome of
\* a service function: the AppError of an ErrorFactory call, with the
\* message the factory was called with, or the error save() threw, which
\* the catch of the service function throws on as it is.
ThrownError(outcome) ==
  IF outcome.res \in {"VersionError", "DocumentNotFoundError"}
  THEN [ isAppError |-> FALSE, name |-> outcome.res, code |-> 0,
         hasArray |-> FALSE, statusCode |-> 0, errorCode |-> "",
         message |-> "No matching document found for id" ]
  ELSE [ isAppError |-> TRUE, name |-> "Error", code |-> 0,
         hasArray |-> FALSE,
         statusCode |-> CASE outcome.res \in {"INVALID_CREDENTIALS",
                                              "REFRESH_TOKEN_INVALID"} -> 401
                          [] outcome.res = "EMAIL_NOT_VERIFIED" -> 403
                          [] outcome.res = "VERIFICATION_TOKEN_EXPIRED" -> 400
                          [] outcome.res = "EMAIL_SEND_FAILED" -> 500
                          [] OTHER -> 409,
         errorCode |-> outcome.res,
         message |-> IF outcome.msg # "" THEN outcome.msg ELSE outcome.res ]

\* errorHandler(err, req, res, next): the status, message and error code of
\* the response.
errorHandler(err) ==
  IF err.isAppError
  THEN [ statusCode |-> err.statusCode, message |-> err.message,
         errorCode |-> err.errorCode ]
  ELSE IF err.name = "ValidationError"
  THEN [ statusCode |-> 400, message |-> "validation failed",
         errorCode |-> "VALIDATION_ERROR" ]
  ELSE IF err.code = 11000
  THEN [ statusCode |-> 409, message |-> "field exists",
         errorCode |-> "DUPLICATE_KEY" ]
  ELSE IF err.name = "JsonWebTokenError"
  THEN [ statusCode |-> 401, message |-> "token invalid",
         errorCode |-> "INVALID_TOKEN" ]
  ELSE IF err.name = "TokenExpiredError"
  THEN [ statusCode |-> 401, message |-> "token expired",
         errorCode |-> "TOKEN_EXPIRED" ]
  ELSE IF err.hasArray
  THEN [ statusCode |-> 400, message |-> "request validation failed",
         errorCode |-> "VALIDATION_ERROR" ]
  ELSE [ statusCode |-> IF err.statusCode # 0 THEN err.statusCode ELSE 500,
         message |-> IF err.message # "" THEN err.message
                     ELSE "internal server error",
         errorCode |-> "INTERNAL_ERROR" ]

(***************************************************************************)
(* Properties of the session operations (SpecSess, SpecSeq).               *)
(***************************************************************************)
\* C1: once refreshAccessToken(T) has succeeded, every refreshAccessToken(T)
\* that begins afterwards is rejected with REFRESH_TOKEN_INVALID.
C1_ReplayRejected ==
  (last.op = "refresh" /\ last.late) => last.res = "REFRESH_TOKEN_INVALID"

\* A rotated token was presented again and rejected.
C1_Replayed ==
  /\ last.op = "refresh" /\ last.late
  /\ last.res = "REFRESH_TOKEN_INVALID"
  /\ rotated # {}

\* C2: of the refreshAccessToken requests that present the same token T, at
\* most one succeeds, whether they follow each other or overlap: no request
\* succeeds with a token that another request has rotated already.
C2_SingleUse == ~(last.op = "refresh" /\ last.res = "OK" /\ last.dup)

\* One of two overlapping requests with the same token has just succeeded,
\* the other one has loaded the account and has yet to save.
C2_Overlap ==
  /\ last.op = "refresh" /\ last.res = "OK"
  /\ \E q \in Procs : /\ proc[q].op = "refresh" /\ proc[q].pc = "loaded"
                      /\ ~proc[q].late
                      /\ proc[q].tok \in rotated

\* C3: every account holds at most MaxSessions sessions that are neither
\* revoked nor expired.
C3_SessionCap ==
  \A id \in Ids :
    Cardinality({i \in 1..Len(users[id].refreshTokens) :
                   /\ ~users[id].refreshTokens[i].isRevoked
                   /\ users[id].refreshTokens[i].expiresAt > now}) <= MaxSessions

\* C4: after six logins in a row and nothing else, the account holds exactly
\* MaxSessions sessions and the token of the first login is no longer stored,
\* so that refreshAccessToken rejects it.
C4_SixLogins ==
  (/\ nextTok = MaxSessions + 2
   /\ rotated = {}
   /\ now = 0
   /\ \A p \in Procs : proc[p].pc = "done")
  => /\ Len(users[1].refreshTokens) = MaxSessions
     /\ UsersWithToken(hashRefreshToken(1)) = {}

C6_VerifiedMonotonic ==
  [][\A id \in Ids :
       (users[id].isVerified /\ id \in DOMAIN users') => users'[id].isVerified]_vars

\* A verified account on which a request that had loaded it before the
\* verification saved afterwards: it carries a ticket again.
C6_SavedAfterVerified ==
  \E id \in Ids : users[id].isVerified /\ users[id].verificationToken # 0

C9_LoginGate ==
  [][/\ \A p \in Procs :
          (proc[p].pc = "done" /\ proc'[p].op = "login") =>
             proc'[p].doc.id \in UsersByAccount(proc'[p].acct)
     /\ last'.op = "login" =>
          IF last'.res = "OK"
          THEN \E p \in Procs :
                 /\ proc[p].op = "login" /\ proc[p].pc = "check"
                 /\ proc'[p].pc = "done"
                 /\ proc[p].doc.id \in Ids
                 /\ users[proc[p].doc.id].isVerified
                 /\ users[proc[p].doc.id].passwordHash = bcryptHash(proc[p].pw)
                 /\ UsersWithToken(hashRefreshToken(last'.out)) = {}
                 /\ findRefreshToken(users'[proc[p].doc.id],
                                     hashRefreshToken(last'.out)) # NoToken
          ELSE users' = users]_vars

\* A login succeeded.
C9_LoggedIn ==
  /\ last.op = "login" /\ last.res = "OK"
  /\ UsersWithToken(hashRefreshToken(last.out)) # {}

\* C10: login has compared the password before it branches on isVerified;
\* the answer EMAIL_NOT_VERIFIED comes after a comparison.
C10_CompareFirst ==
  /\ \A p \in Procs : (proc[p].op = "login" /\ proc[p].pc = "check") => proc[p].cmp
  /\ (last.op = "login" /\ last.res = "EMAIL_NOT_VERIFIED") => last.cmp

\* An unverified account was refused after its password had been compared.
C10_Refused ==
  last.op = "login" /\ last.res = "EMAIL_NOT_VERIFIED" /\ last.cmp

\* C11: every login attempt compares the password against a hash before it
\* answers, also when its identifier matches no account.
C11_AlwaysCompared == last.op = "login" => last.cmp

\* C12: a login that is refused, because no account matches, because the
\* password is wrong or because the account is not verified, is refused
\* with INVALID_CREDENTIALS in all three cases.
C12_UniformFailure ==
  (last.op = "login" /\ last.res \notin {"OK", "VersionError", "DocumentNotFoundError"})
    => last.res = "INVALID_CREDENTIALS"

C15_GlobalSignOut ==
  (last.op = "logoutByUserId" /\ last.res = "OK" /\ last.out \in Ids)
    => users[last.out].refreshTokens = <<>>

\* C14: a logout(T) that saves removes the session with the hash of T from
\* the account it loaded and nothing else: every other session of that
\* account and every session of every other account stays stored as it
\* was.  A logout that fails, and a logout whose token matches no session,
\* leave the store as it was, and the latter answers with success.
C14_LogoutOne ==
  [][/\ \A p \in Procs :
          (proc[p].op = "logout" /\ proc[p].pc = "loaded" /\ proc'[p].pc = "done") =>
             LET h == hashRefreshToken(proc[p].tok)
                 Other(rt) == rt.tokenHash # h
             IN IF last'.res = "OK"
                THEN /\ DOMAIN users' = Ids
                     /\ \A id \in Ids :
                          users'[id].refreshTokens =
                            IF id = proc[p].doc.id
                            THEN SelectSeq(users[id].refreshTokens, Other)
                            ELSE users[id].refreshTokens
                ELSE users' = users
     /\ (last'.op = "logout" /\ proc' = proc) =>
          /\ users' = users
          /\ last'.res = "OK"]_vars

\* Three logins, on both accounts, and one logout: each account is left
\* with a session.
C14_LoggedOutOne ==
  /\ last.op = "logout" /\ last.res = "OK"
  /\ nextTok = 4 /\ rotated = {}
  /\ \A id \in Ids : Len(users[id].refreshTokens) = 1

\* C17: every session entry stored on an account holds the SHA-256 hash of
\* a refresh token that was returned to a caller; no entry holds a token as
\* it was issued.
C17_HashOnly ==
  \A id \in Ids : \A i \in 1..Len(users[id].refreshTokens) :
    LET stored == users[id].refreshTokens[i].tokenHash
    IN stored[1] = "sha256" /\ stored[2] \in IssuedTokens

\* A rotation has returned a raw token whose hash is stored.
C17_Rotated ==
  /\ last.op = "refresh" /\ last.res = "OK"
  /\ UsersWithToken(hashRefreshToken(last.out)) # {}
  /\ last.out \in IssuedTokens

C19_GenericFailure ==
  [][/\ \A p \in Procs :
          (proc[p].pc = "done" /\ proc'[p].op = "verify")
          => \E id \in Ids :
                /\ users[id].verificationToken = proc'[p].tok
                /\ users[id].verificationTokenExpires > now
     /\ (last'.op = "verify" /\ proc' = proc)
          => /\ last'.res = "VERIFICATION_TOKEN_EXPIRED"
             /\ users' = users
     /\ (last'.op = "verify" /\ last'.res # "OK")
          => VerifyRoute([token |-> last'.out], last'.res) = VerifyFailurePage
    ]_vars

\* The ticket of an account was presented after its expiry and refused like
\* an unknown one.
C19_ExpiredRefused ==
  /\ last.op = "verify" /\ last.res = "VERIFICATION_TOKEN_EXPIRED"
  /\ last.out # 0
  /\ \E id \in Ids : /\ users[id].verificationToken = last.out
                     /\ users[id].verificationTokenExpires <= now

(***************************************************************************)
(* Properties of the access tokens (SpecJwt).                              *)
(***************************************************************************)
\* The token was signed with the private key of the configured public key.
SignedByService(token) == token.key = jwtConfig.privateKey

C20_Offline ==
  [][/\ (users' # users /\ now' = now)
          => \A token \in AccessTokenInputs :
                verifyAccessToken(token)' = verifyAccessToken(token)
     /\ (last'.op = "login" /\ last'.res = "OK")
          => \E token \in AccessTokenInputs :
                /\ token = last'.acc
                /\ verifyAccessToken(token)' = Payload(token)
     /\ (last'.op \in {"logout", "logoutAll"} /\ last'.res = "OK")
          => \A token \in AccessTokenInputs :
                verifyAccessToken(token) # Null
                => verifyAccessToken(token)' = Payload(token)
    ]_vars

\* The account has signed out everywhere and the access token of its login
\* is still accepted.
C20_AcceptedAfterSignOut ==
  /\ last.op = "logoutAll" /\ last.res = "OK"
  /\ nextTok > 1
  /\ users[1].refreshTokens = <<>>
  /\ now = 0
  /\ verifyAccessToken([generateAccessToken(Load(1)) EXCEPT !.exp = AccessTTL])
       = [userId |-> 1, exp |-> AccessTTL,
          iss |-> jwtConfig.issuer, aud |-> jwtConfig.audience]

(***************************************************************************)
(* Properties of the e-mail identity (SpecCase).                           *)
(***************************************************************************)
\* The spellings of an e-mail address that differ only in letter case.
CaseVariants(email) == IF email \in {"a@x", "A@x"} THEN {"a@x", "A@x"} ELSE {email}

\* C21: no two stored accounts have e-mail addresses that differ at most in
\* letter case, a registration of an address that is stored in another
\* spelling creates no account, and a login by any spelling of a stored
\* address goes on with the account of that address.
C21_CaseInsensitiveEmail ==
  [][/\ \A i \in DOMAIN users' : \A j \in DOMAIN users' :
          (i # j) => users'[i].email \notin CaseVariants(users'[j].email)
     /\ \A p \in Procs :
          (/\ proc[p].op = "register" /\ proc[p].pc = "create"
           /\ proc'[p] # proc[p]
           /\ \E id \in Ids : users[id].email \in CaseVariants(proc[p].acct))
          => users' = users /\ last'.res = "CONFLICT_email"
     /\ \A p \in Procs : \A account \in Emails : \A deviceInfo \in DeviceInfos :
          LoginFind(p, account, "pw1", deviceInfo)
          => \A id \in Ids :
                users[id].email \in CaseVariants(account)
                => proc'[p].op = "login" /\ proc'[p].doc.id = id
    ]_vars

\* An account stored as a@x was found by a login that spelled it A@x.
C21_FoundByOtherCase ==
  \E p \in Procs :
     /\ proc[p].op = "login" /\ proc[p].acct = "A@x"
     /\ proc[p].doc.id \in Ids
     /\ users[proc[p].doc.id].email = "a@x"

(***************************************************************************)
(* Properties of the routes (SpecRoute).                                   *)
(***************************************************************************)
\* C22: every stored session entry that a login or a refresh through the
\* routes created carries the User-Agent and the address of a caller.
C22_DeviceRecorded ==
  \A id \in Ids : \A i \in 1..Len(users[id].refreshTokens) :
     /\ users[id].refreshTokens[i].deviceInfo \in Devices
     /\ users[id].refreshTokens[i].ipAddress \in IpAddresses

(***************************************************************************)
(* Properties of the middleware of a business system (SpecMw).             *)
(***************************************************************************)
\* C23: jwtVerify calls next, with req.user.userId the userId of the token,
\* only for a header 'Bearer <token>' whose token verifies; it answers a
\* request without header with 401 and the code NO_TOKEN, and a request
\* whose token does not verify with 401 and the code TOKEN_INVALID, without
\* calling next.
C23_Middleware ==
  last.op = "jwtVerify" =>
    /\ last.res = "next" =>
         /\ last.auth = "Bearer" /\ last.tries = 2
         /\ verifyAccessToken(last.acc) # Null
         /\ last.out = verifyAccessToken(last.acc).userId
    /\ last.auth = "none" =>
         last.http = 401 /\ last.res = "NO_TOKEN"
    /\ (last.auth = "Bearer" /\ last.tries = 2 /\ verifyAccessToken(last.acc) = Null) =>
         last.http = 401 /\ last.res = "TOKEN_INVALID"

(***************************************************************************)
(* Properties of concurrent session writes (SpecCap).                      *)
(***************************************************************************)
\* C24: the session of a token that was issued and is no longer stored is
\* not stored after any step, and a rotation succeeds only with a token
\* whose session is stored when the rotation is saved.
C24_NoResurrection ==
  [][/\ \A t \in IssuedTokens :
          UsersWithToken(hashRefreshToken(t)) = {}
          => UsersWithToken(hashRefreshToken(t))' = {}
     /\ \A t \in IssuedTokens :
          (t \in rotated' /\ t \notin rotated)
          => UsersWithToken(hashRefreshToken(t)) # {}
    ]_vars

\* A login or a refresh that had loaded the account before a session was
\* removed was refused at its save.
C24_StaleWriteRefused ==
  /\ last.op \in {"login", "refresh"}
  /\ last.res = "VersionError"
  /\ \E t \in IssuedTokens : UsersWithToken(hashRefreshToken(t)) = {}

\* The session of token t is stored.
Stored(t) == UsersWithToken(hashRefreshToken(t)) # {}

\* The stored session of token t has reached its expiry.
ExpiredSession(t) ==
  \E id \in Ids : \E i \in 1..Len(users[id].refreshTokens) :
     /\ users[id].refreshTokens[i].tokenHash = hashRefreshToken(t)
     /\ users[id].refreshTokens[i].expiresAt <= now

\* The session of token t is beyond the newest MaxSessions of the stored
\* list.
BeyondCap(t) ==
  \E id \in Ids :
     /\ Len(users[id].refreshTokens) > MaxSessions
     /\ \A i \in 1..MaxSessions :
          SortDesc(users[id].refreshTokens)[i].tokenHash # hashRefreshToken(t)

\* C25: the session of a token that a login or a refresh returns is stored
\* when it is returned, and a stored session leaves the store only in a step
\* that rotates its token, logs its token out, signs the account out
\* everywhere, removes it as expired, or is a login that evicts it as beyond
\* the cap.
C25_NoLostSession ==
  [][/\ (last'.op \in {"login", "refresh"} /\ last'.res = "OK")
          => \E t \in 1..nextTok : t = last'.out /\ Stored(t)'
     /\ \A t \in IssuedTokens :
          (Stored(t) /\ ~Stored(t)')
          => \/ t \in rotated' /\ t \notin rotated
             \/ \E p \in Procs : /\ proc[p].op = "logout" /\ proc[p].tok = t
                                 /\ last'.op = "logout" /\ last'.res = "OK"
             \/ last'.op = "logoutAll" /\ last'.res = "OK"
             \/ ExpiredSession(t)
             \/ last'.op = "login" /\ last'.res = "OK" /\ BeyondCap(t)
    ]_vars

\* A write that had loaded the account before a login added a session was
\* refused, and the session of that login is stored.
C25_ConcurrentKept ==
  /\ last.res = "VersionError"
  /\ nextTok > MaxSessions + 2
  /\ Stored(nextTok - 1)
  /\ rotated = {}

(***************************************************************************)
(* Properties of the failures of refreshAccessToken (SpecRefresh).         *)
(***************************************************************************)
\* The stored session list of account id without its entry number k.
WithoutEntry(id, k) ==
  [i \in 1..(Len(users[id].refreshTokens) - 1) |->
     users[id].refreshTokens[IF i < k THEN i ELSE i + 1]]

\* C26: refreshAccessToken(T) goes past its lookup only when a session has
\* hash(T) and otherwise fails as invalid with the store unchanged; with
\* the session it found it fails as revoked, store unchanged, when the flag
\* is set, whatever the expiry; it fails as expired when the flag is not
\* set and the expiry has passed, and then exactly that session has left the
\* store.
C26_RefreshFailures ==
  [][/\ \A p \in Procs :
          (proc[p].pc = "done" /\ proc'[p].op = "refresh")
          => Stored(proc'[p].tok)
     /\ (last'.op = "refresh" /\ proc' = proc)
          => last'.msg = "invalid" /\ users' = users
     /\ \A p \in Procs :
          (proc[p].op = "refresh" /\ proc[p].pc = "loaded" /\ proc'[p].pc = "done")
          => \A k \in 1..Len(proc[p].doc.refreshTokens) :
                LET rt == proc[p].doc.refreshTokens[k]
                IN rt.tokenHash = hashRefreshToken(proc[p].tok)
                   => /\ rt.isRevoked
                         => last'.msg = "revoked" /\ users' = users
                      /\ (~rt.isRevoked /\ rt.expiresAt < now)
                         => \/ /\ last'.msg = "expired"
                               /\ users[proc[p].doc.id].refreshTokens[k] = rt
                               /\ users'[proc[p].doc.id].refreshTokens
                                    = WithoutEntry(proc[p].doc.id, k)
                               /\ \A id \in Ids \ {proc[p].doc.id} :
                                    users'[id] = users[id]
                            \/ /\ last'.res = "VersionError"
                               /\ users' = users
                      /\ (~rt.isRevoked /\ rt.expiresAt >= now)
                         => last'.msg = ""
    ]_vars

\* A session that is revoked and past its expiry was refused as revoked and
\* is still stored.
C26_RevokedBeforeExpired ==
  /\ last.op = "refresh" /\ last.msg = "revoked"
  /\ \E i \in 1..Len(users[1].refreshTokens) :
        /\ users[1].refreshTokens[i].isRevoked
        /\ users[1].refreshTokens[i].expiresAt < now

(***************************************************************************)
(* Properties of the conflicts of register (SpecReg).                      *)
(***************************************************************************)
\* C27: a register whose insert is rejected by the unique index on email or
\* username answers with the status, code, message and field detail that
\* the pre-check of that field answers with, and the store is unchanged.
C27_IndexConflictAsPreCheck ==
  [][/\ \A p \in Procs :
          (/\ proc[p].op = "register" /\ proc[p].pc = "create"
           /\ proc'[p] # proc[p]
           /\ UniqueIndexConflict(proc[p].acct, proc[p].uname) # "none")
          => LET field == UniqueIndexConflict(proc[p].acct, proc[p].uname)
             IN /\ last'.dup /\ last'.http = 409
                /\ [last' EXCEPT !.dup = FALSE]
                     = Refused(field, PreCheckConflict(field))
                /\ users' = users
     /\ (last'.op = "register" /\ proc' = proc)
          => last' = Refused("email", PreCheckConflict("email"))
     /\ \A p \in Procs :
          (proc[p].op = "register" /\ proc[p].pc = "checkUsername"
           /\ proc'[p].pc = "done")
          => last' = Refused("username", PreCheckConflict("username"))
    ]_vars

\* A register that passed both pre-checks was refused by the unique index,
\* and the account that took its address or name is stored.
C27_RefusedByIndex ==
  /\ last.op = "register" /\ last.dup
  /\ last.field \in {"email", "username"}
  /\ Ids # {}

\* C28: a register whose insert is rejected by a unique index on its first
\* pass through the read-check-write sequence does not answer but repeats
\* the sequence from the e-mail check, and a rejection on the second pass is
\* answered with the conflict.
C28_RetryOnce ==
  [][\A p \in Procs :
        (/\ proc[p].op = "register" /\ proc[p].pc = "create"
         /\ proc'[p] # proc[p]
         /\ UniqueIndexConflict(proc[p].acct, proc[p].uname) # "none")
        => IF proc[p].pass = 1
           THEN /\ proc'[p].op = "register" /\ proc'[p].pass = 2
                /\ last' = NoOutcome
           ELSE last'.op = "register" /\ last'.dup
    ]_vars

\* C29: a register with the e-mail address of a stored account that is not
\* verified gives that account a new verification ticket and goes on to
\* the delivery of the ticket.
C29_ReissueForUnverified ==
  [][\A p \in Procs : \A email \in {"a@x", "b@x"} : \A username \in {"alice", "bob"} :
        (/\ RegCheckEmail(p, email, username, "pw1")
         /\ \E id \in UsersByEmail(email) : ~users[id].isVerified)
        => /\ \E id \in UsersByEmail(email) :
                /\ users'[id].verificationToken = nextTicket
                /\ users'[id].verificationToken # users[id].verificationToken
           /\ proc'[p].op = "register"
           /\ last' = NoOutcome
    ]_vars

(***************************************************************************)
(* Properties of the delivery loop of register (SpecRegFair).              *)
(***************************************************************************)
\* The seconds waited by the end of turn number attempt of the loop.
WaitedBy(attempt) == IF attempt = 1 THEN 0 ELSE IF attempt = 2 THEN 2 ELSE 5

\* C30: a register calls the notifier at most MaxRetries = 3 times, its
\* calls being numbered 1, 2, 3; the call that succeeds is its last and the
\* register answers OK; before each call after the first it has waited; and
\* every register that was started comes to an end, with OK or an error.
C30_BoundedDelivery ==
  /\ [][\A p \in Procs :
          /\ (proc'[p].op = "register" /\ proc'[p].pc = "send")
               => proc'[p].att \in 1..MaxRetries
          /\ (proc[p].op = "register" /\ proc[p].pc = "send" /\ proc'[p] # proc[p])
               => /\ proc'[p].pc = "send"
                       => /\ proc'[p].att = proc[p].att + 1
                          /\ proc'[p].waited = WaitedBy(proc[p].att)
                  /\ proc'[p].pc = "rollback"
                       => /\ proc[p].att = MaxRetries
                          /\ proc'[p].waited = WaitedBy(proc[p].att)
                  /\ proc'[p].pc = "done"
                       => /\ last'.res = "OK" /\ last'.sent
                          /\ last'.tries = proc[p].att
                          /\ last'.waited = WaitedBy(proc[p].att)
                  /\ proc[p].att > 1 => proc[p].waited < WaitedBy(proc[p].att)
          /\ RegSend(p, TRUE) => proc'[p].pc = "done" /\ last'.res = "OK"
          /\ (proc[p].op = "register" /\ proc'[p].pc = "done")
               => /\ last'.op = "register"
                  /\ last'.res \in {"OK", "EMAIL_SEND_FAILED",
                                    "CONFLICT_email", "CONFLICT_username"}
       ]_vars
  /\ \A p \in Procs : (proc[p].op = "register") ~> (proc[p].pc = "done")

\* A register answered OK after its third call of the notifier, the first
\* two having failed, and waited 2 and 3 seconds before the second and third.
C30_ThirdAttemptDelivered ==
  /\ last.op = "register" /\ last.res = "OK" /\ last.sent
  /\ last.tries = MaxRetries
  /\ last.waited = 5

(***************************************************************************)
(* Properties of the error responses (SpecSess).                           *)
(***************************************************************************)
\* C31: the message of the response to a failed request is the fixed
\* message of its kind of error: for an error that is not an AppError it is
\* the handler's own message, never the text of the error.
C31_FixedMessage ==
  (last.op \in {"login", "refresh", "logout", "logoutAll"} /\ last.res # "OK")
  => LET err == ThrownError(last)
         answer == errorHandler(err)
     IN IF err.isAppError
        THEN answer.message
               \in {"INVALID_CREDENTIALS", "EMAIL_NOT_VERIFIED",
                    "invalid", "revoked", "expired"}
        ELSE /\ answer.message = "internal server error"
             /\ answer.message # err.message

(***************************************************************************)
(* Properties of the length of the session list (SpecFive).                *)
(***************************************************************************)
\* C32: the stored session list of an account never has more than
\* MaxSessions + 1 entries.
C32_ActualBound ==
  \A id \in Ids : Len(users[id].refreshTokens) <= MaxSessions + 1

(***************************************************************************)
(* Properties of the rollback of register and of the tickets (Spec).       *)
(***************************************************************************)
\* C33: an account that leaves the store is unverified in the store at the
\* moment it is deleted.
C33_RollbackOnlyUnverified ==
  [][\A id \in Ids : (id \notin DOMAIN users') => ~users[id].isVerified]_vars

(***************************************************************************)
(* Properties of the tickets under resends (SpecTicket).                   *)
(***************************************************************************)
\* C34: an account holds one ticket value; a resend that saves stores a
\* ticket that was never issued before in place of the one the account
\* held; a stored ticket only ever changes to a new one or to none; and a
\* verifyEmail that starts with an issued ticket which no account holds any
\* more is rejected, while one that goes on has the ticket its account holds.
C34_LatestTicketOnly ==
  [][/\ \A id \in Ids \cap DOMAIN users' :
          users'[id].verificationToken # users[id].verificationToken
          => /\ users'[id].verificationToken \in {0, nextTicket}
             /\ users'[id].verificationToken \notin IssuedTickets
     /\ \A p \in Procs :
          (proc[p].op = "resend" /\ proc[p].pc = "loaded" /\ proc'[p].pc = "send")
          => /\ users'[proc[p].doc.id].verificationToken = nextTicket
             /\ \A t \in IssuedTickets : \A id \in DOMAIN users' :
                   users'[id].verificationToken # t
     /\ \A p \in Procs :
          (proc[p].pc = "done" /\ proc'[p].op = "verify")
          => users[proc'[p].doc.id].verificationToken = proc'[p].tok
     /\ (last'.op = "verify" /\ proc' = proc)
          => /\ last'.res = "VERIFICATION_TOKEN_EXPIRED"
             /\ users' = users
    ]_vars

\* A verifyEmail with the ticket of the registration was rejected while the
\* account, still unverified, holds the unexpired ticket of a later resend.
C34_OldTicketRejected ==
  /\ last.op = "verify" /\ last.res = "VERIFICATION_TOKEN_EXPIRED"
  /\ last.out = 1 /\ ~last.late
  /\ \E id \in Ids : /\ ~users[id].isVerified
                     /\ users[id].verificationToken > 1
                     /\ users[id].verificationTokenExpires > now

\* C35: an account with isVerified = true holds no verification ticket.
C35_NoTicketWhenVerified ==
  \A id \in Ids : users[id].isVerified => users[id].verificationToken = 0

(***************************************************************************)
(* Properties of a rotation (SpecRefresh).                                 *)
(***************************************************************************)
\* C36: a refreshAccessToken(T) that succeeds leaves, of the account that
\* held the session of hash(T), the sessions of other hashes that are not
\* revoked and whose expiry lies after now, unchanged and in their order,
\* followed by one new session: a hash no stored session has, expiry now +
\* the refresh lifetime, the caller's user agent and address or, where the
\* caller gave none, those of the replaced session.  Nothing else of the
\* account and no other account changes.
C36_RotationFrame ==
  [][\A p \in Procs :
        (/\ proc[p].op = "refresh" /\ proc[p].pc = "loaded"
         /\ last'.op = "refresh" /\ last'.res = "OK"
         /\ proc'[p] # proc[p])
        => LET id == proc[p].doc.id
               old == users[id].refreshTokens
               tokenHash == hashRefreshToken(proc[p].tok)
               hits == {i \in 1..Len(old) : old[i].tokenHash = tokenHash}
               Others(rt) == /\ rt.tokenHash # tokenHash
                             /\ rt.expiresAt > now /\ ~rt.isRevoked
           IN /\ Cardinality(hits) = 1
              /\ \A i \in hits :
                   users'[id].refreshTokens =
                     Append(SelectSeq(old, Others),
                            [ tokenHash |-> hashRefreshToken(last'.out),
                              expiresAt |-> now + RefreshTTL,
                              createdAt |-> now,
                              deviceInfo |-> IF proc[p].dev.userAgent # ""
                                             THEN proc[p].dev.userAgent
                                             ELSE old[i].deviceInfo,
                              ipAddress |-> IF proc[p].dev.ipAddress # ""
                                            THEN proc[p].dev.ipAddress
                                            ELSE old[i].ipAddress,
                              isRevoked |-> FALSE ])
              /\ \A i \in 1..Len(old) :
                   old[i].tokenHash # hashRefreshToken(last'.out)
              /\ [users'[id] EXCEPT !.refreshTokens = old, !.v = users[id].v]
                   = users[id]
              /\ DOMAIN users' = Ids
              /\ \A other \in Ids \ {id} : users'[other] = users[other]
    ]_vars

\* A refresh with no device information succeeded on an account that keeps
\* another session: the new session carries the user agent and address of
\* the replaced one.
C36_Inherited ==
  /\ last.op = "refresh" /\ last.res = "OK"
  /\ \E id \in Ids :
        /\ Len(users[id].refreshTokens) >= 2
        /\ \E i \in 1..Len(users[id].refreshTokens) :
              /\ users[id].refreshTokens[i].tokenHash = hashRefreshToken(last.out)
              /\ users[id].refreshTokens[i].deviceInfo = "ua0"
              /\ users[id].refreshTokens[i].ipAddress = "ip0"

C39_SameBoundary ==
  [][\A p \in Procs :
        (proc[p].op = "refresh" /\ proc[p].pc = "loaded" /\ proc'[p] # proc[p])
        => LET tokenHash == hashRefreshToken(proc[p].tok)
               tokenData == findRefreshToken(proc[p].doc, tokenHash)
               purged == findRefreshToken(cleanExpiredTokens(proc[p].doc),
                                          tokenHash) = NoToken
           IN (tokenData # NoToken /\ ~tokenData.isRevoked)
              => IF purged
                 THEN \/ last'.res = "REFRESH_TOKEN_INVALID" /\ last'.msg = "expired"
                      \/ last'.res \in {"VersionError", "DocumentNotFoundError"}
                 ELSE last'.msg # "expired"
    ]_vars
====
